---- MODULE Spec2Model ----
(***************************************************************************)
(* The auto-update controller of app/src/autoupdate.js as a state machine. *)
(*                                                                         *)
(* The controller is a set of callbacks run to completion by one event     *)
(* loop: the exported checkForUpdates, the IPC handler, the five handlers  *)
(* of the update provider (electron-updater), the completion callbacks of  *)
(* the asynchronous dialogs, and the promise callbacks of the cookie copy. *)
(* Each is one action.  The update provider, the dialogs, the windows and  *)
(* the cookie stores are the environment: the provider answers each        *)
(* command it was given with the events of its API, the user answers each  *)
(* pending dialog with one of its buttons.                                 *)
(*                                                                         *)
(* `last` records what the most recent callback was and what it did to the *)
(* outside (dialogs presented, provider commands, external pages, files,   *)
(* cookies), in the order of the calls in the source.                      *)
(***************************************************************************)
EXTENDS Integers, Sequences, FiniteSets, Bags, TLC

\* Bounds of the model.
MaxRequests == 2    \* provider checks and downloads in flight at once
MaxPrompts == 2     \* update prompts awaiting the user's answer at once
MaxIgnored == 2     \* length of the ignored-versions list
MaxWindows == 2     \* windows that can be open at once
MaxCookies == 2     \* cookies the main session holds for the release URL
MaxSyncs == 2       \* resolved cookie syncs whose continuation has not run yet

Versions == {"2.0.0", "2.1.0"}
\* info.percent of a download-progress event: <<p>>, or <<>> when it is missing.
Percents == {<<>>, <<100>>}

VARIABLES
    isDev,            \* appEnv.isDev
    portable,         \* process.env.PORTABLE_EXECUTABLE_DIR is set
    platform,         \* process.platform
    releaseUrl,       \* config electron.releaseUrl: "absent" or the URL
    releaseNotesUrl,  \* config.has('electron.releaseNotesUrl')
    updating,
    mainWindow,       \* TRUE once initAutoUpdate stored the window
    cookiesCopied,
    ignoredVersions,
    ignoreFile,       \* [exists, content]: the file at ignorePath
    listening,        \* the channels a handler of the controller is subscribed to
    running,          \* FALSE once quitAndInstall ended the process
    bars,             \* the progress bar of each open window, in getAllWindows() order
    userChecks,       \* provider checks in flight issued by checkForUpdates(true)
    bgChecks,         \* provider checks in flight issued by checkForUpdates(false)
    downloads,        \* provider downloads in flight
    prompts,          \* bag of update prompts awaiting an answer
    getPending,       \* cookies.get of the main session is in flight
    setsPending,      \* cookies.set calls on the updater session in flight
    syncsResolved,    \* copyReleaseUrlCookies promises resolved, continuation not yet run
    cookieReads,      \* calls of cookies.get on the main session so far
    last              \* the most recent callback and its outside effects

env == <<isDev, portable, platform, releaseUrl, releaseNotesUrl>>
provider == <<userChecks, bgChecks, downloads>>
cookies == <<cookiesCopied, getPending, setsPending, syncsResolved, cookieReads>>
store == <<ignoredVersions, ignoreFile>>
vars == <<env, updating, mainWindow, store, listening, running, bars, provider,
          prompts, cookies, last>>

\* ---------------------------------------------------------------- effects
Dialogs == {"UpdateFailed/YesNo", "UpdateFailed/OK", "UpdateNotAvailable/OK",
            "UpdateAvailable/WhatsNew", "UpdateAvailable/Download",
            "UpdateDownloading/OK", "UpdateDownloaded/Install", "UpdateDownloaded/OK"}
Commands == {"checkForUpdates", "downloadUpdate", "quitAndInstall"}

Range(s) == {s[i] : i \in DOMAIN s}
CountIn(s, S) == Cardinality({i \in DOMAIN s : s[i] \in S})

\* What a callback leaves in `last`: its name, the request or prompt it answers,
\* the version it carries, the branch it took and its effects in call order.
Did(op, req, version, branch, fx) ==
    [op |-> op, req |-> req, version |-> version, branch |-> branch, fx |-> fx]

\* No callback of the controller has run in the step.
Idle == Did("none", "none", "none", "none", <<>>)

\* ------------------------------------------------------- configuration
\* hasReleaseUrl (line 250): config.has('electron.releaseUrl').
hasReleaseUrl == releaseUrl # "absent"

\* getReleaseUrl (lines 257-262): the configured value, '' when absent or falsy.
getReleaseUrl == IF hasReleaseUrl THEN releaseUrl ELSE ""

\* openReleaseUrl (lines 268-273): the external pages it opens.
openReleaseUrl == IF getReleaseUrl # "" THEN <<"openExternal(releaseUrl)">> ELSE <<>>

\* getTargetWindow (line 201) is truthy: the focused window or the first open one.
getTargetWindow == DOMAIN bars # {}

\* A slip in line 192: only the most recently opened window gets the value.
updateProgressOfNewest(value) ==
    [w \in DOMAIN bars |-> IF w = Len(bars) THEN value ELSE bars[w]]

\* updateProgress (lines 191-193): every open window gets the same value.
updateProgress(value) == [w \in DOMAIN bars |-> value]

\* ------------------------------------------------------- the ignore file
\* The file holds JSON text, here the sequence of its tokens.  A version is
\* written as a JSON string, in double quotes.
Quoted(version) == "\"" \o version \o "\""

\* JSON.stringify of an array of strings (line 391): [ "a" , "b" ].
JSONstringify(list) ==
    [i \in 1..(IF list = <<>> THEN 2 ELSE 2 * Len(list) + 1) |->
        IF i = 1 THEN "["
        ELSE IF i = (IF list = <<>> THEN 2 ELSE 2 * Len(list) + 1) THEN "]"
        ELSE IF i % 2 = 0 THEN Quoted(list[i \div 2])
        ELSE ","]

\* JSON.parse of such a text (line 63): the strings between the brackets.
JSONparse(text) ==
    [i \in 1..((Len(text) - 1) \div 2) |->
        CHOOSE version \in Versions : Quoted(version) = text[2 * i]]

\* ------------------------------------------------------------ the state
\* The file at start: none (first launch), or what ignoreVersion wrote in an
\* earlier run, which is never an empty list.  The versions are interchangeable,
\* so one stands for a skipped version of an earlier run.
InitialFiles ==
    {[exists |-> FALSE, content |-> <<>>],
     [exists |-> TRUE, content |-> JSONstringify(<<"2.0.0">>)]}

Init ==
    /\ isDev \in BOOLEAN
    /\ portable \in BOOLEAN
    /\ platform \in {"darwin", "win32"}
    \* the configured URL is absent or a non-empty string
    /\ releaseUrl \in {"absent", "url"}
    /\ releaseNotesUrl \in BOOLEAN
    /\ updating = FALSE
    /\ mainWindow = FALSE
    /\ cookiesCopied = FALSE
    /\ ignoreFile \in InitialFiles
    \* lines 62-63: the list is the parsed file, or [] when there is no file
    /\ ignoredVersions = IF ignoreFile.exists THEN JSONparse(ignoreFile.content) ELSE <<>>
    /\ listening = {}
    /\ running = TRUE
    /\ bars = <<>>
    /\ userChecks = 0
    /\ bgChecks = 0
    /\ downloads = 0
    /\ prompts = EmptyBag
    /\ getPending = FALSE
    /\ setsPending = 0
    /\ syncsResolved = 0
    /\ cookieReads = 0
    /\ last = Idle

\* ---------------------------------------------------- the update provider
\* The provider answers every command: a check with update-available,
\* update-not-available or error; a download with download-progress events and
\* then update-downloaded or error.  `req` names the command an event answers.
hasRequest(req) ==
    CASE req = "user" -> userChecks > 0
      [] req = "bg" -> bgChecks > 0
      [] req = "download" -> downloads > 0

answered(req) ==
    /\ userChecks' = IF req = "user" THEN userChecks - 1 ELSE userChecks
    /\ bgChecks' = IF req = "bg" THEN bgChecks - 1 ELSE bgChecks
    /\ downloads' = IF req = "download" THEN downloads - 1 ELSE downloads

\* The commands the provider has not answered yet.
InFlight == userChecks + bgChecks + downloads

\* ------------------------------------------------------- checkForUpdates
\* A slip in line 82: the list is not emptied.
ignoredKept(user) == ignoredVersions

\* line 82: a user-initiated check empties the in-memory list.
ignoredAfterCheck(user) == IF user THEN <<>> ELSE ignoredVersions

\* line 83: and sets the flag.
updatingAfterCheck(user) == IF user THEN TRUE ELSE updating

\* A slip in line 87: the dev config is not looked at.
shouldCheckWithoutDevConfig(user, devConfig) == user \/ ~isDev

\* line 87: the check is skipped in development without a dev config, unless
\* the user asked for it.  devConfig is hasDevConfig() (line 72) at the call.
shouldCheck(user, devConfig) == user \/ ~isDev \/ devConfig

\* line 87: hasDevConfig() is reached, and the file looked for, only when the
\* first two operands of || are false.
devConfigRead(user, devConfig) ==
    IF user \/ ~isDev THEN <<>>
    ELSE IF devConfig THEN <<"existsSync(dev-app-update.yml): true">>
    ELSE <<"existsSync(dev-app-update.yml): false">>

\* A slip in line 79: user is true when the argument is left out.
defaultUserTrue == TRUE

\* line 79: user is false when the argument is left out.
defaultUser == FALSE

\* lines 79-90, called as `op`.
checkForUpdatesAs(op, user, devConfig) ==
    /\ ignoredVersions' = ignoredAfterCheck(user)
    /\ updating' = updatingAfterCheck(user)
    /\ IF shouldCheck(user, devConfig)
         THEN /\ InFlight < MaxRequests
              /\ userChecks' = IF user THEN userChecks + 1 ELSE userChecks
              /\ bgChecks' = IF user THEN bgChecks ELSE bgChecks + 1
              /\ last' = Did(op, IF user THEN "user" ELSE "bg", "none", "Checking",
                             devConfigRead(user, devConfig) \o <<"checkForUpdates">>)
         ELSE /\ UNCHANGED <<userChecks, bgChecks>>
              /\ last' = Did(op, IF user THEN "user" ELSE "bg", "none", "NoCheck",
                             devConfigRead(user, devConfig))
    /\ UNCHANGED <<env, mainWindow, ignoreFile, listening, running, bars, downloads,
                   prompts>>

\* The exported checkForUpdates, called by the application (menu, startup)
\* once it has initialised the updater.
checkForUpdates ==
    \E user \in BOOLEAN, devConfig \in BOOLEAN :
        /\ running /\ mainWindow
        /\ checkForUpdatesAs("checkForUpdates", user, devConfig)
        /\ UNCHANGED cookies

\* ------------------------------------------------------------ lifecycle
\* The five provider events and the IPC message.
Channels == {"download-progress", "error", "update-available", "update-not-available",
             "update-downloaded", "check-for-updates"}

\* lines 152-158: the channels initAutoUpdate subscribes a handler to.
subscribed == Channels

\* A slip in lines 166-172: the error handler is not removed.
removedButError == Channels \ {"error"}

\* lines 166-172: the channels disposeAutoUpdate removes the handler from.
removed == Channels

\* initAutoUpdate (lines 146-159), called once, with the main window.
initAutoUpdate ==
    /\ running /\ ~mainWindow /\ listening = {}
    /\ getTargetWindow
    /\ mainWindow' = TRUE
    /\ listening' = listening \cup subscribed
    /\ last' = Did("initAutoUpdate", "none", "none", "none", <<>>)
    /\ UNCHANGED <<env, updating, store, running, bars, provider, prompts, cookies>>

\* disposeAutoUpdate (lines 165-173), called once after initAutoUpdate.
disposeAutoUpdate ==
    /\ running /\ listening # {}
    /\ listening' = listening \ removed
    /\ last' = Did("disposeAutoUpdate", "none", "none", "none", <<>>)
    /\ UNCHANGED <<env, updating, mainWindow, store, running, bars, provider, prompts,
                   cookies>>

\* --------------------------------------------------------------- windows
\* The application opens and closes windows; a new window shows no progress.
openWindow ==
    /\ running
    /\ Len(bars) < MaxWindows
    /\ bars' = Append(bars, -1)
    /\ last' = Idle
    /\ UNCHANGED <<env, updating, mainWindow, store, listening, running, provider,
                   prompts, cookies>>

closeWindow ==
    \E w \in DOMAIN bars :
        /\ running
        /\ bars' = [i \in 1..(Len(bars) - 1) |-> IF i < w THEN bars[i] ELSE bars[i + 1]]
        /\ last' = Idle
        /\ UNCHANGED <<env, updating, mainWindow, store, listening, running, provider,
                       prompts, cookies>>

\* ------------------------------------------------------ provider events
\* onDownloadProgress (lines 180-184); percent / 100 is exact for Percents.
onDownloadProgress ==
    \E percent \in Percents :
        /\ running /\ "download-progress" \in listening
        /\ hasRequest("download")
        /\ IF percent # <<>>
             THEN /\ bars' = updateProgress(percent[1] \div 100)
                  /\ last' = Did("onDownloadProgress", "download", "none", "Progress",
                                 <<"updateProgress">>)
             ELSE /\ bars' = bars
                  /\ last' = Did("onDownloadProgress", "download", "none", "NoPercent", <<>>)
        /\ UNCHANGED <<env, updating, mainWindow, store, listening, running, provider,
                       prompts, cookies>>

\* A slip in line 213: the failure is shown whatever the flag.
showsErrorAlways == TRUE

\* line 213: the failure is shown only when the user asked for the update.
showsError == updating

\* onError (lines 208-243).  The Yes/No box is synchronous: `index` is the
\* user's answer, given before the handler goes on.
onError ==
    \E req \in {"user", "bg", "download"}, index \in {0, 1} :
        /\ running /\ "error" \in listening
        /\ hasRequest(req)
        /\ answered(req)
        /\ LET branch == IF req = "download" THEN "DownloadError" ELSE "CheckError"
               shown ==
                   IF ~getTargetWindow THEN <<>>
                   ELSE IF hasReleaseUrl
                          THEN <<"UpdateFailed/YesNo">> \o
                               (IF index = 0 THEN openReleaseUrl ELSE <<>>)
                          ELSE <<"UpdateFailed/OK">>
           IN IF showsError
                THEN /\ bars' = updateProgress(-1)
                     /\ last' = Did("onError", req, "none", branch,
                                    <<"log.error", "updateProgress">> \o shown)
                ELSE /\ bars' = bars
                     /\ last' = Did("onError", req, "none", branch, <<"log.error">>)
        /\ updating' = FALSE
        /\ UNCHANGED <<env, mainWindow, store, listening, running, prompts, cookies>>

\* line 281: "up to date" is shown only when the user asked for the update.
showsNotAvailable == updating

\* onUpdateNotAvailable (lines 280-295)
onUpdateNotAvailable ==
    \E req \in {"user", "bg"} :
        /\ running /\ "update-not-available" \in listening
        /\ hasRequest(req)
        /\ answered(req)
        /\ IF showsNotAvailable
             THEN /\ updating' = FALSE
                  /\ last' = Did("onUpdateNotAvailable", req, "none", "NotAvailable",
                                 IF getTargetWindow THEN <<"UpdateNotAvailable/OK">>
                                 ELSE <<>>)
             ELSE /\ updating' = updating
                  /\ last' = Did("onUpdateNotAvailable", req, "none", "NotAvailable", <<>>)
        /\ UNCHANGED <<env, mainWindow, store, listening, running, bars, prompts, cookies>>

\* A slip in line 303: indexOf(...) > 0 misses the first entry.
isIgnoredAfterFirst(version) ==
    \E i \in DOMAIN ignoredVersions : i > 1 /\ ignoredVersions[i] = version

\* line 303: ignoredVersions.indexOf(info.version) > -1
isIgnored(version) == \E i \in DOMAIN ignoredVersions : ignoredVersions[i] = version

\* line 311: a prompt needs a window, and an installed app or a release page.
canPrompt == getTargetWindow /\ (~portable \/ hasReleaseUrl)

Prompt(kind, version) == [kind |-> kind, version |-> version]
withPrompt(bag, kind, version) == bag (+) SetToBag({Prompt(kind, version)})
withoutPrompt(bag, p) == bag (-) SetToBag({p})

\* A slip in lines 347-354: the two-button prompt is not presented.
showNothing(bag, version) == bag

\* showUpdateAvailable (lines 345-354) presents the two-button prompt; its
\* callback is answerDownload.
showUpdateAvailable(bag, version) == withPrompt(bag, "Download", version)

\* onUpdateAvailable (lines 302-338), up to the dialog it presents; the
\* dialog's callback is answerWhatsNew or answerDownload.
onUpdateAvailable ==
    \E req \in {"user", "bg"}, version \in Versions :
        /\ running /\ "update-available" \in listening
        /\ hasRequest(req)
        /\ answered(req)
        /\ IF isIgnored(version)
             THEN /\ prompts' = prompts
                  /\ last' = Did("onUpdateAvailable", req, version, "Skipped", <<"log.info">>)
             ELSE IF ~canPrompt
               THEN /\ prompts' = prompts
                    /\ last' = Did("onUpdateAvailable", req, version, "Suppressed", <<>>)
               ELSE /\ BagCardinality(prompts) < MaxPrompts
                    /\ IF releaseNotesUrl
                         THEN /\ prompts' = withPrompt(prompts, "WhatsNew", version)
                              /\ last' = Did("onUpdateAvailable", req, version, "Prompted",
                                             <<"UpdateAvailable/WhatsNew">>)
                         ELSE /\ prompts' = showUpdateAvailable(prompts, version)
                              /\ last' = Did("onUpdateAvailable", req, version, "Prompted",
                                             <<"UpdateAvailable/Download">>)
        /\ UNCHANGED <<env, updating, mainWindow, store, listening, running, bars, cookies>>

\* ------------------------------------------------------- prompt answers
\* line 356: development and portable apps cannot be updated automatically.
canAutoDownload == ~(isDev \/ portable)

\* A slip in line 405: the platform is not looked at.
canQuitAndInstallAnywhere == TRUE

\* line 405: quitAndInstall is not used on macOS.
canQuitAndInstall == platform # "darwin"

\* startDownload (lines 371-383): the notice is not awaited.
startDownloadFx == <<"UpdateDownloading/OK", "downloadUpdate">>

startDownload ==
    /\ InFlight < MaxRequests
    /\ updating' = TRUE
    /\ downloads' = downloads + 1
    /\ UNCHANGED <<store, userChecks, bgChecks>>

\* A slip in line 391: the list is not written to the file.
ignoreVersionUnsaved(version) ==
    /\ Len(ignoredVersions) < MaxIgnored
    /\ ignoredVersions' = Append(ignoredVersions, version)
    /\ ignoreFile' = ignoreFile
    /\ UNCHANGED <<updating, provider>>

\* A slip in line 390: a version the list already holds is not pushed again.
ignoreVersionOnce(version) ==
    /\ Len(ignoredVersions) < MaxIgnored
    /\ ignoredVersions' = IF version \in Range(ignoredVersions) THEN ignoredVersions
                          ELSE Append(ignoredVersions, version)
    /\ ignoreFile' = [exists |-> TRUE, content |-> JSONstringify(ignoredVersions')]
    /\ UNCHANGED <<updating, provider>>

\* ignoreVersion (lines 389-392): push, then write the whole list.
ignoreVersion(version) ==
    /\ Len(ignoredVersions) < MaxIgnored
    /\ ignoredVersions' = Append(ignoredVersions, version)
    /\ ignoreFile' = [exists |-> TRUE, content |-> JSONstringify(ignoredVersions')]
    /\ UNCHANGED <<updating, provider>>

\* The callback of the three-button prompt (lines 323-332).
answerWhatsNew ==
    \E p \in BagToSet(prompts), response \in 0..2, checkboxChecked \in BOOLEAN :
        /\ running
        /\ p.kind = "WhatsNew"
        /\ CASE response = 0 ->
                  /\ prompts' = showUpdateAvailable(withoutPrompt(prompts, p), p.version)
                  /\ last' = Did("answerWhatsNew", "prompt", p.version, "WhatsNew",
                                 <<"openExternal(releaseNotesUrl)", "UpdateAvailable/Download">>)
                  /\ UNCHANGED <<updating, store, provider>>
             [] response = 1 ->
                  /\ startDownload
                  /\ prompts' = withoutPrompt(prompts, p)
                  /\ last' = Did("answerWhatsNew", "prompt", p.version, "Downloading",
                                 startDownloadFx)
             [] response = 2 /\ checkboxChecked ->
                  /\ ignoreVersion(p.version)
                  /\ prompts' = withoutPrompt(prompts, p)
                  /\ last' = Did("answerWhatsNew", "prompt", p.version, "Ignored",
                                 <<"writeFile">>)
             [] OTHER ->
                  /\ prompts' = withoutPrompt(prompts, p)
                  /\ last' = Did("answerWhatsNew", "prompt", p.version, "Dismissed", <<>>)
                  /\ UNCHANGED <<updating, store, provider>>
        /\ UNCHANGED <<env, mainWindow, listening, running, bars, cookies>>

\* The callback of the two-button prompt (lines 354-365).
answerDownload ==
    \E p \in BagToSet(prompts), response \in 0..1, checkboxChecked \in BOOLEAN :
        /\ running
        /\ p.kind = "Download"
        /\ prompts' = withoutPrompt(prompts, p)
        /\ CASE response = 0 /\ ~canAutoDownload ->
                  /\ last' = Did("answerDownload", "prompt", p.version,
                                 "ExternalPageOpened", openReleaseUrl)
                  /\ UNCHANGED <<updating, store, provider>>
             [] response = 0 /\ canAutoDownload ->
                  /\ startDownload
                  /\ last' = Did("answerDownload", "prompt", p.version, "Downloading",
                                 startDownloadFx)
             [] response # 0 /\ checkboxChecked ->
                  /\ ignoreVersion(p.version)
                  /\ last' = Did("answerDownload", "prompt", p.version, "Ignored",
                                 <<"writeFile">>)
             [] OTHER ->
                  /\ last' = Did("answerDownload", "prompt", p.version, "Dismissed", <<>>)
                  /\ UNCHANGED <<updating, store, provider>>
        /\ UNCHANGED <<env, mainWindow, listening, running, bars, cookies>>

\* onUpdateDownloaded (lines 398-430).  The Install/Wait box is synchronous;
\* quitAndInstall ends the process.
onUpdateDownloaded ==
    \E index \in {0, 1} :
        /\ running /\ "update-downloaded" \in listening
        /\ hasRequest("download")
        /\ answered("download")
        /\ updating' = FALSE
        /\ IF ~getTargetWindow
             THEN /\ UNCHANGED <<bars, running>>
                  /\ last' = Did("onUpdateDownloaded", "download", "none", "NoWindow", <<>>)
             ELSE /\ bars' = updateProgress(-1)
                  /\ IF canQuitAndInstall
                       THEN IF index = 0
                              THEN /\ running' = FALSE
                                   /\ last' = Did("onUpdateDownloaded", "download", "none",
                                                  "InstallNow",
                                                  <<"updateProgress", "UpdateDownloaded/Install",
                                                    "quitAndInstall">>)
                              ELSE /\ running' = running
                                   /\ last' = Did("onUpdateDownloaded", "download", "none",
                                                  "DeferInstall",
                                                  <<"updateProgress", "UpdateDownloaded/Install">>)
                       ELSE /\ running' = running
                            /\ last' = Did("onUpdateDownloaded", "download", "none",
                                           "Acknowledged",
                                           <<"updateProgress", "UpdateDownloaded/OK">>)
        /\ UNCHANGED <<env, mainWindow, store, listening, prompts, cookies>>

\* ---------------------------------------------------------- cookie sync
\* lines 114-118: the copy is made once, with a release URL and a main window
\* (session.fromPartition always gives a session).
needsCopy == ~cookiesCopied /\ getReleaseUrl # "" /\ mainWindow

\* A slip in line 119: the latch is not set.
notLatched == FALSE

\* line 119: the latch.
latched == TRUE

\* onCheckForUpdates (lines 97-101) with copyReleaseUrlCookies up to the
\* promise it returns (lines 113-121, 138): the promise of cookies.get's
\* callback, or a resolved promise; checkForUpdates is its continuation.
onCheckForUpdates ==
    /\ running /\ "check-for-updates" \in listening
    /\ IF needsCopy
         THEN /\ cookiesCopied' = latched
              /\ getPending' = TRUE
              /\ cookieReads' = cookieReads + 1
              /\ last' = Did("onCheckForUpdates", "ipc", "none", "Copying", <<"cookies.get">>)
              /\ UNCHANGED <<setsPending, syncsResolved>>
         ELSE /\ syncsResolved < MaxSyncs
              /\ syncsResolved' = syncsResolved + 1
              /\ last' = Did("onCheckForUpdates", "ipc", "none", "Resolved", <<>>)
              /\ UNCHANGED <<cookiesCopied, getPending, setsPending, cookieReads>>
    /\ UNCHANGED <<env, updating, mainWindow, store, listening, running, bars, provider,
                   prompts>>

\* The callback of cookies.get (lines 121-133): it starts one cookies.set per
\* cookie and returns without returning the Promise.all, so the promise that
\* copyReleaseUrlCookies returned resolves now.
cookiesRead ==
    \E n \in 0..MaxCookies :
        /\ running /\ getPending
        /\ syncsResolved < MaxSyncs
        /\ getPending' = FALSE
        /\ setsPending' = setsPending + n
        /\ syncsResolved' = syncsResolved + 1
        /\ last' = Did("cookiesRead", "ipc", "none", "Copied", [i \in 1..n |-> "cookies.set"])
        /\ UNCHANGED <<env, updating, mainWindow, store, listening, running, bars, provider,
                       prompts, cookiesCopied, cookieReads>>

\* cookies.get rejects: no handler is attached, the continuation never runs.
cookiesReadFailed ==
    /\ running /\ getPending
    /\ getPending' = FALSE
    /\ last' = Did("cookiesReadFailed", "ipc", "none", "Rejected", <<>>)
    /\ UNCHANGED <<env, updating, mainWindow, store, listening, running, bars, provider,
                   prompts, cookiesCopied, setsPending, syncsResolved, cookieReads>>

\* One cookies.set finishes, fulfilled or rejected; nothing awaits it.
cookieSet ==
    /\ running /\ setsPending > 0
    /\ setsPending' = setsPending - 1
    /\ last' = Idle
    /\ UNCHANGED <<env, updating, mainWindow, store, listening, running, bars, provider,
                   prompts, cookiesCopied, getPending, syncsResolved, cookieReads>>

\* The continuation of lines 98-100: checkForUpdates(), without an argument.
onCookiesCopied ==
    \E devConfig \in BOOLEAN :
        /\ running /\ syncsResolved > 0
        /\ syncsResolved' = syncsResolved - 1
        /\ checkForUpdatesAs("onCookiesCopied", defaultUser, devConfig)
        /\ UNCHANGED <<cookiesCopied, getPending, setsPending, cookieReads>>

\* An event or an IPC message on a channel without a handler of the
\* controller, as after disposeAutoUpdate: no code of the controller runs.  A
\* progress event and an IPC message answer no command of the provider.
unheard ==
    \E channel \in Channels, req \in {"user", "bg", "download", "ipc"} :
        /\ running /\ channel \notin listening
        /\ CASE channel = "check-for-updates" ->
                  req = "ipc" /\ UNCHANGED provider
             [] channel = "download-progress" ->
                  req = "download" /\ hasRequest(req) /\ UNCHANGED provider
             [] channel = "update-downloaded" ->
                  req = "download" /\ hasRequest(req) /\ answered(req)
             [] channel = "error" ->
                  req # "ipc" /\ hasRequest(req) /\ answered(req)
             [] OTHER ->
                  req \in {"user", "bg"} /\ hasRequest(req) /\ answered(req)
        /\ last' = Did("unheard", req, "none", "none", <<>>)
        /\ UNCHANGED <<env, updating, mainWindow, store, listening, running, bars, prompts,
                       cookies>>

Next ==
    \/ checkForUpdates
    \/ initAutoUpdate
    \/ disposeAutoUpdate
    \/ openWindow
    \/ closeWindow
    \/ onCheckForUpdates
    \/ cookiesRead
    \/ cookiesReadFailed
    \/ cookieSet
    \/ onCookiesCopied
    \/ onDownloadProgress
    \/ onError
    \/ onUpdateNotAvailable
    \/ onUpdateAvailable
    \/ answerWhatsNew
    \/ answerDownload
    \/ onUpdateDownloaded
    \/ unheard

\* The whole controller.  The specifications below are its parts, each with
\* the actions that read or write the part's variables.
Spec == Init /\ [][Next]_vars

\* The update cycle alone: checks, prompts, downloads and the ignore list.  The
\* cookie copy is left out: it shares no variable with the cycle except through
\* the background check its continuation issues, which checkForUpdates(false)
\* issues here.
NextCycle ==
    \/ checkForUpdates
    \/ initAutoUpdate
    \/ openWindow
    \/ closeWindow
    \/ onDownloadProgress
    \/ onError
    \/ onUpdateNotAvailable
    \/ onUpdateAvailable
    \/ answerWhatsNew
    \/ answerDownload
    \/ onUpdateDownloaded

SpecCycle == Init /\ [][NextCycle]_vars

\* The subscriptions and their end: the six handlers, disposeAutoUpdate and
\* the events and messages that arrive after it.  The cookie copy is left out
\* as in SpecCycle; windows stay open, and of the two prompts the two-button
\* one is answered, which is enough to have checks and downloads in flight
\* when the handlers are removed.
NextDisposal ==
    \/ checkForUpdates
    \/ initAutoUpdate
    \/ disposeAutoUpdate
    \/ openWindow
    \/ onDownloadProgress
    \/ onError
    \/ onUpdateNotAvailable
    \/ onUpdateAvailable
    \/ answerDownload
    \/ onUpdateDownloaded
    \/ unheard

SpecDisposal == Init /\ [][NextDisposal]_vars

\* The cookie copy and the checks it leads to.  Prompts and downloads are left
\* out: no action of the copy reads or writes them; a check the provider is
\* given is answered with update-not-available or an error.
NextSync ==
    \/ checkForUpdates
    \/ initAutoUpdate
    \/ disposeAutoUpdate
    \/ openWindow
    \/ closeWindow
    \/ onCheckForUpdates
    \/ cookiesRead
    \/ cookiesReadFailed
    \/ cookieSet
    \/ onCookiesCopied
    \/ onError
    \/ onUpdateNotAvailable
    \/ unheard

SpecSync == Init /\ [][NextSync]_vars

\* SpecSync with the scheduling the event loop gives: cookies.get settles
\* (fulfilled or rejected), the continuation of a resolved promise runs, and
\* the provider answers every check it was given.
SpecSyncFair ==
    /\ Init /\ [][NextSync]_vars
    /\ WF_vars(cookiesRead \/ cookiesReadFailed)
    /\ SF_vars(onCookiesCopied)
    /\ WF_vars(onError \/ onUpdateNotAvailable \/ unheard)

\* ================================================================ claims
Shown(fx) == CountIn(fx, Dialogs)
Issued(fx) == CountIn(fx, Commands)
Opened(fx) == CountIn(fx, {"openExternal(releaseUrl)", "openExternal(releaseNotesUrl)"})

\* C1: a version recorded by ignoreVersion is in the list right after; it stays
\* in the list until a user-initiated checkForUpdates empties it; and an
\* update-available event carrying a version of the list presents no dialog,
\* leaves no prompt pending and issues no provider command.
C1_IgnoredVersionIsSkipped ==
    [][ /\ last'.branch = "Ignored" => last'.version \in Range(ignoredVersions')
        /\ \A v \in Range(ignoredVersions) :
              v \notin Range(ignoredVersions')
                  => last'.op = "checkForUpdates" /\ last'.req = "user"
        /\ (last'.op = "onUpdateAvailable" /\ last'.version \in Range(ignoredVersions))
              => /\ Shown(last'.fx) = 0
                 /\ Issued(last'.fx) = 0
                 /\ prompts' = prompts
                 /\ downloads' = downloads
      ]_vars

\* C1 witness: an update-available event for 2.1.0, which only ignoreVersion
\* can have put in the list, was skipped.
C1_Witness ==
    /\ last.op = "onUpdateAvailable"
    /\ last.branch = "Skipped"
    /\ last.version = "2.1.0"
    /\ ignoreFile.exists /\ "2.1.0" \in Range(JSONparse(ignoreFile.content))

\* C2: checkForUpdates(true) sets updating and empties the in-memory list in
\* the same call and leaves the file alone; the file changes only when
\* ignoreVersion writes it; and an update-available event answering a
\* user-initiated check, for a version that is not in the list again, is
\* prompted for whenever prompts can be shown, also when the file holds it.
C2_UserCheckClearsMemoryOnly ==
    [][ /\ (last'.op = "checkForUpdates" /\ last'.req = "user")
              => /\ updating'
                 /\ ignoredVersions' = <<>>
                 /\ ignoreFile' = ignoreFile
        /\ ignoreFile' # ignoreFile
              => /\ last'.branch = "Ignored"
                 /\ JSONparse(ignoreFile'.content) = Append(ignoredVersions, last'.version)
        /\ ( /\ last'.op = "onUpdateAvailable" /\ last'.req = "user"
             /\ last'.version \notin Range(ignoredVersions)
             /\ DOMAIN bars # {} /\ (~portable \/ releaseUrl # "absent") )
              => /\ last'.branch = "Prompted"
                 /\ Shown(last'.fx) = 1
                 /\ BagCardinality(prompts') = BagCardinality(prompts) + 1
      ]_vars

\* C2 witness: after a user-initiated check, a version the file still holds
\* and the list no longer holds is prompted for.
C2_Witness ==
    /\ last.op = "onUpdateAvailable" /\ last.req = "user"
    /\ last.branch = "Prompted"
    /\ ignoreFile.exists /\ last.version \in Range(JSONparse(ignoreFile.content))
    /\ ignoredVersions = <<>>
    /\ updating

\* C3: in a portable build or in development the provider's download command
\* is never issued, and no download is started from a prompt.
C3_NoDownloadWhenPortableOrDev ==
    (isDev \/ portable)
        => /\ "downloadUpdate" \notin Range(last.fx)
           /\ last.branch # "Downloading"
           /\ downloads = 0

\* C4: the check of an IPC trigger is issued only when no cookie set on the
\* updater session is still pending.
C4_CheckAfterCookiesSet ==
    (last.op = "onCookiesCopied" /\ "checkForUpdates" \in Range(last.fx))
        => setsPending = 0

\* C5: the main session's cookies are read at most once; the latch is never
\* reset; a trigger that finds the latch set reads and sets no cookie and its
\* promise is resolved at once; cookies are set only by the one read's callback.
C5_CookiesCopiedOnce ==
    [][ /\ cookieReads' <= 1
        /\ cookiesCopied => cookiesCopied'
        /\ cookieReads' # cookieReads => ~cookiesCopied /\ cookiesCopied'
        /\ (cookiesCopied /\ last'.op = "onCheckForUpdates")
              => /\ last'.fx = <<>>
                 /\ syncsResolved' = syncsResolved + 1
                 /\ UNCHANGED <<getPending, setsPending, cookieReads>>
        /\ setsPending' > setsPending => last'.op = "cookiesRead" /\ cookieReads = 1
      ]_vars

\* C5 witness: a trigger after the copy (its cookies set) resolved at once.
C5_Witness ==
    /\ last.op = "onCheckForUpdates" /\ last.branch = "Resolved"
    /\ cookiesCopied /\ cookieReads = 1
    /\ ~getPending /\ setsPending > 0

\* C6: when a cycle has reached a terminal branch and nothing of it is left
\* (no request in flight, no prompt pending), updating is false.
C6_TerminalBranchResetsUpdating ==
    ( /\ last.branch \in {"NotAvailable", "CheckError", "Ignored", "Dismissed",
                          "ExternalPageOpened", "DeferInstall", "Suppressed"}
      /\ InFlight = 0
      /\ prompts = EmptyBag )
        => ~updating

\* C7: with a window open, the result of a user-initiated check that found no
\* update or failed, the failure of a download and a finished download are
\* each presented with exactly one dialog; the same results of a background
\* check, arriving while updating is false (as it is when the user has done
\* nothing), are presented with none.
C7_OneModalPerAwaitedOutcome ==
    [][ last'.op \in {"onError", "onUpdateNotAvailable", "onUpdateDownloaded"}
          => /\ (last'.req \in {"user", "download"} /\ DOMAIN bars # {})
                  => Shown(last'.fx) = 1
             /\ (last'.req = "bg" /\ ~updating)
                  => Shown(last'.fx) = 0
      ]_vars

\* C8: an error event handled with updating false shows no dialog, opens no
\* page and leaves the progress bars alone; after any error event updating is
\* false.
C8_SilentErrorWhenNotUpdating ==
    [][ last'.op = "onError"
          => /\ ~updating'
             /\ ~updating
                  => /\ Shown(last'.fx) = 0
                     /\ Opened(last'.fx) = 0
                     /\ "updateProgress" \notin Range(last'.fx)
                     /\ bars' = bars
      ]_vars

\* C8 witness: an error was handled silently while a window shows progress.
C8_Witness ==
    /\ last.op = "onError"
    /\ last.fx = <<"log.error">>
    /\ \E w \in DOMAIN bars : bars[w] = 1
    /\ ~updating

\* C9: "up to date" is presented only if updating was true, and updating is
\* then false; the not-available result of a background check that arrives
\* when the user's cycle is over (no user check or download in flight, no
\* prompt pending) is silent.
C9_BackgroundNotAvailableIsSilent ==
    [][ last'.op = "onUpdateNotAvailable"
          => /\ Shown(last'.fx) > 0 => updating /\ ~updating'
             /\ ( /\ last'.req = "bg"
                  /\ userChecks = 0 /\ downloads = 0 /\ prompts = EmptyBag )
                  => Shown(last'.fx) = 0
      ]_vars

\* C10: quitAndInstall is issued only by onUpdateDownloaded, off macOS, with a
\* window open, after the Install/Wait prompt was answered Install; on macOS the
\* process is never ended and a finished download is only acknowledged.
C10_QuitAndInstallOnlyOnInstall ==
    /\ "quitAndInstall" \in Range(last.fx)
          => /\ last.op = "onUpdateDownloaded"
             /\ last.branch = "InstallNow"
             /\ platform # "darwin"
             /\ DOMAIN bars # {}
             /\ last.fx = <<"updateProgress", "UpdateDownloaded/Install", "quitAndInstall">>
    /\ ~running => "quitAndInstall" \in Range(last.fx)
    /\ platform = "darwin"
          => /\ running
             /\ last.op = "onUpdateDownloaded"
                  => last.fx \in {<<>>, <<"updateProgress", "UpdateDownloaded/OK">>}

\* C10 witness: off macOS the user chose Install and the process ended.
C10_Witness ==
    /\ last.branch = "InstallNow"
    /\ platform = "win32"
    /\ ~running

\* C11: without a file the list is empty; ignoreVersion(v) appends v to the
\* list, also when the list holds v already, and the file then holds the JSON
\* text of the whole list, which parses back to the list; on a store that never
\* had a file the first ignoreVersion(v) leaves the file holding ["v"].
C11_FileHoldsWholeList ==
    [][ /\ ~ignoreFile.exists => ignoredVersions = <<>>
        /\ last'.branch = "Ignored"
              => /\ ignoredVersions' = Append(ignoredVersions, last'.version)
                 /\ ignoreFile'.exists
                 /\ ignoreFile'.content = JSONstringify(ignoredVersions')
                 /\ JSONparse(ignoreFile'.content) = ignoredVersions'
                 /\ ~ignoreFile.exists
                      => ignoreFile'.content = <<"[", Quoted(last'.version), "]">>
      ]_vars

\* C11 witness: a version was ignored a second time and is twice in the file.
C11_Witness ==
    /\ last.branch = "Ignored"
    /\ ignoredVersions = <<"2.1.0", "2.1.0">>
    /\ ignoreFile.content = <<"[", "\"2.1.0\"", ",", "\"2.1.0\"", "]">>

\* C12: every IPC trigger is followed by its check: the continuation that
\* calls checkForUpdates() runs, and outside development it issues the
\* provider's check, also when cookies.get or a cookies.set fails.
C12_CheckProceedsAfterCookieFailure ==
    (last.op \in {"onCheckForUpdates", "cookiesReadFailed"})
        ~> ( /\ last.op = "onCookiesCopied"
             /\ ~isDev => "checkForUpdates" \in Range(last.fx) )

\* C13: a callback that called updateProgress leaves every open window with
\* the same value: 1 after a progress event of 100 percent, -1 after an error
\* that was shown; and after an update-downloaded event updating is false and
\* every open window shows -1.
C13_ProgressOnEveryWindow ==
    /\ "updateProgress" \in Range(last.fx)
          => \A w, x \in DOMAIN bars : bars[w] = bars[x]
    /\ last.branch = "Progress" => \A w \in DOMAIN bars : bars[w] = 1
    /\ (last.op = "onError" /\ "updateProgress" \in Range(last.fx))
          => \A w \in DOMAIN bars : bars[w] = -1
    /\ last.op = "onUpdateDownloaded"
          => /\ ~updating
             /\ \A w \in DOMAIN bars : bars[w] = -1

\* C13 witness: a download finished with two windows open, both cleared.
C13_Witness ==
    /\ last.op = "onUpdateDownloaded"
    /\ "updateProgress" \in Range(last.fx)
    /\ bars = <<-1, -1>>
    /\ ~updating

\* C14: disposeAutoUpdate leaves no channel subscribed; once the handlers
\* were subscribed and removed, no handler of the controller runs any more,
\* and an event or IPC message that arrives changes nothing of the controller,
\* presents no dialog and issues no provider command.
C14_NoHandlerAfterDispose ==
    [][ /\ last'.op = "disposeAutoUpdate" => listening' = {}
        /\ (mainWindow /\ listening # Channels)
              => /\ last'.op \notin {"onDownloadProgress", "onError", "onUpdateAvailable",
                                     "onUpdateNotAvailable", "onUpdateDownloaded",
                                     "onCheckForUpdates"}
                 /\ last'.op = "unheard"
                      => /\ last'.fx = <<>>
                         /\ UNCHANGED <<updating, mainWindow, store, listening, running,
                                        bars, prompts, cookies>>
      ]_vars

\* C14 witness: after dispose, the end of a running download went unheard and
\* updating stayed true.
C14_Witness ==
    /\ last.op = "unheard" /\ last.req = "download"
    /\ mainWindow /\ listening = {}
    /\ downloads = 0
    /\ updating

\* C15: a call of checkForUpdates(user) issues the provider's check exactly
\* when user is true, the app is not in development, or the dev config file
\* is there; otherwise (development, no dev config, user false) it issues
\* nothing and leaves updating, the list and the file as they were.
C15_CheckIssuedUnlessDevWithoutConfig ==
    [][ last'.op \in {"checkForUpdates", "onCookiesCopied"}
          => LET user == last'.req = "user"
                 devConfig == "existsSync(dev-app-update.yml): true" \in Range(last'.fx)
                 issued == "checkForUpdates" \in Range(last'.fx)
             IN /\ issued <=> (user \/ ~isDev \/ devConfig)
                /\ issued => /\ Issued(last'.fx) = 1
                             /\ userChecks' + bgChecks' = userChecks + bgChecks + 1
                /\ ~issued => /\ isDev /\ ~user
                              /\ Issued(last'.fx) = 0
                              /\ UNCHANGED <<provider, updating, store>>
      ]_vars

\* C15 witness: in development without a dev config, a call that was not
\* user-initiated issued nothing while the user's own check was in flight.
C15_Witness ==
    /\ last.op = "checkForUpdates" /\ last.req = "bg"
    /\ last.branch = "NoCheck"
    /\ isDev
    /\ updating /\ userChecks = 1

\* C16: no step of the handling of an IPC trigger (the handler, the callback
\* of the cookie read, the continuation that calls checkForUpdates()) changes
\* updating, the list or the file; the check the continuation issues is a
\* background check.
C16_IpcCheckIsNotUserInitiated ==
    [][ last'.op \in {"onCheckForUpdates", "cookiesRead", "cookiesReadFailed",
                      "onCookiesCopied"}
          => /\ updating' = updating
             /\ ignoredVersions' = ignoredVersions
             /\ ignoreFile' = ignoreFile
             /\ userChecks' = userChecks
             /\ last'.op = "onCookiesCopied" => last'.req = "bg"
      ]_vars

\* C16 witness: the check of an IPC trigger was issued with updating false and
\* the list of an earlier run still in memory.
C16_Witness ==
    /\ last.op = "onCookiesCopied" /\ last.branch = "Checking"
    /\ bgChecks > 0
    /\ ~updating
    /\ ignoredVersions = <<"2.0.0">>

\* C17: after "What's New" in the three-button prompt the release notes were
\* opened and the two-button prompt for the same version is pending, with no
\* download command issued and nothing else changed by the answer; after
\* "Download" in the three-button prompt the download command was issued and
\* the two-button prompt was not presented; a download command is only ever
\* issued by a "Download" answer.
C17_WhatsNewStillAsks ==
    /\ (last.op = "answerWhatsNew" /\ last.branch = "WhatsNew")
          => /\ last.fx = <<"openExternal(releaseNotesUrl)", "UpdateAvailable/Download">>
             /\ BagIn([kind |-> "Download", version |-> last.version], prompts)
    /\ (last.op = "answerWhatsNew" /\ last.branch = "Downloading")
          => /\ last.fx = <<"UpdateDownloading/OK", "downloadUpdate">>
             /\ downloads > 0
    /\ "downloadUpdate" \in Range(last.fx)
          => /\ last.op \in {"answerWhatsNew", "answerDownload"}
             /\ last.branch = "Downloading"

\* C17 witness: the notes were opened, the second prompt is the only thing
\* pending, and nothing is being downloaded.
C17_Witness ==
    /\ last.op = "answerWhatsNew" /\ last.branch = "WhatsNew"
    /\ prompts = SetToBag({[kind |-> "Download", version |-> last.version]})
    /\ downloads = 0
    /\ ~updating

\* C18: "Cancel" with the checkbox unchecked, in either prompt, only closes
\* the prompt: updating, the list, the file, the commands in flight and the
\* progress bars stay as they were and nothing is presented or issued;
\* "Cancel" with the checkbox checked appends the prompted version to the
\* list, writes the whole list to the file and changes nothing else.
C18_CancelOnlyIgnores ==
    [][ last'.op \in {"answerWhatsNew", "answerDownload"}
          => /\ last'.branch = "Dismissed"
                  => /\ last'.fx = <<>>
                     /\ UNCHANGED <<updating, ignoredVersions, ignoreFile, provider, bars,
                                    mainWindow, listening, running, cookies>>
                     /\ BagCardinality(prompts') = BagCardinality(prompts) - 1
             /\ last'.branch = "Ignored"
                  => /\ last'.fx = <<"writeFile">>
                     /\ ignoredVersions' = Append(ignoredVersions, last'.version)
                     /\ ignoreFile' = [exists |-> TRUE,
                                       content |-> JSONstringify(ignoredVersions')]
                     /\ UNCHANGED <<updating, provider, bars, mainWindow, listening,
                                    running, cookies>>
                     /\ BagCardinality(prompts') = BagCardinality(prompts) - 1
                     /\ BagIn([kind |-> IF last'.op = "answerWhatsNew" THEN "WhatsNew"
                                        ELSE "Download",
                               version |-> last'.version], prompts)
      ]_vars

\* C18 witness: the three-button prompt was cancelled with the checkbox
\* checked while a download was running; the download and updating stayed.
C18_Witness ==
    /\ last.op = "answerWhatsNew" /\ last.branch = "Ignored"
    /\ ignoredVersions = <<last.version>>
    /\ downloads = 1
    /\ updating

\* C19: at most one download is in flight: when the download command is
\* issued, no download issued earlier is still waiting for its
\* update-downloaded or error event.
C19_OneDownloadAtATime ==
    /\ downloads <= 1
    /\ "downloadUpdate" \in Range(last.fx) => downloads = 1

\* C20: right after the event that ends the only running download
\* (update-downloaded, or error), updating is false and every open window
\* shows -1, whatever was handled for other checks in the meantime.
C20_DownloadEndClearsProgress ==
    ( /\ last.op \in {"onUpdateDownloaded", "onError"}
      /\ last.req = "download"
      /\ downloads = 0 )
        => /\ ~updating
           /\ \A w \in DOMAIN bars : bars[w] = -1

====
